---- MODULE Spec2Model ----
(***************************************************************************)
(* Model of the MIDI macro orchestrator of src-tauri/src/lib.rs: the macro *)
(* registry, the MIDI callback, the per-trigger task (preemption, before,  *)
(* main and after phases), the after-actions timer task, and the commands  *)
(* register_macro and cancel_macro.  Every step of a task is one critical  *)
(* section of a std::sync::Mutex or one awaited action execution, so the   *)
(* interleavings are those of the multi-threaded tokio runtime.            *)
(***************************************************************************)
EXTENDS Integers, Sequences, FiniteSets, TLC

VARIABLES
    registered_macros,      \* AppState.registered_macros: Vec<MacroConfig>
    active_macros,          \* AppState.active_macros: key -> timer task (abort handle)
    before_action_states,   \* AppState.before_action_states: key -> BeforeActionState
    tasks,                  \* the trigger tasks spawned by the MIDI callback
    timers,                 \* the after-actions timer tasks
    now,                    \* the clock (ms)
    down,                   \* keys and buttons the OS sees depressed
    cmd,                    \* the register_macro / cancel_macro calls in progress
    triggers,               \* number of MIDI messages that matched a macro so far
    commands,               \* register_macro / cancel_macro calls still to come
    beforeRuns,             \* history: before-phase runs of a key since its last after-phase
    mainEnd,                \* history: when a trigger of a key last finished its main phase
    returned,               \* the Vec<MacroConfig> returned by the last get_macros call
    executed,               \* the last execute_action call and its Result
    threads,                \* per thread of control: its statement, the locks it holds
    emitted                 \* the rust-midi-event payloads emitted by the last step

vars == <<registered_macros, active_macros, before_action_states, tasks, timers,
          now, down, cmd, triggers, commands, beforeRuns, mainEnd, returned, executed,
          threads, emitted>>

\* Option<T>: None is the empty sequence, Some(x) the sequence of x alone
None == <<>>
Some(x) == <<x>>
IsSome(o) == o # <<>>
Unwrap(o) == o[1]

(***************************************************************************)
(* Bounds of the model.                                                    *)
(***************************************************************************)
MaxTasks == 2       \* trigger tasks in flight at the same time
MaxTimers == 2      \* timer tasks alive (or still referenced) at the same time
MaxTicks == 2       \* clock ticks
MaxCommands == 1    \* register_macro / cancel_macro calls
MaxTriggers == 2    \* MIDI messages that match a macro
MaxCalls == 2       \* register_macro / cancel_macro calls in progress at the same time

\* const BEFORE_ACTION_COOLDOWN_MS: u64 = 5000
BEFORE_ACTION_COOLDOWN_MS == 5000

\* The clock advances by half a cooldown, so a duration can be shorter than,
\* equal to or longer than the cooldown and its doubled extension.
TickMs == BEFORE_ACTION_COOLDOWN_MS \div 2

TaskIds == 1..MaxTasks
TimerIds == 1..MaxTimers
CmdIds == 1..MaxCalls

(***************************************************************************)
(* Actions and the action executor.                                        *)
(***************************************************************************)
\* impl Default for ActionParams: every field None
DefaultParams ==
    [x |-> None, y |-> None, button |-> None, key |-> None, keys |-> None,
     relative |-> None, hold |-> None, duration |-> None]

KeyPress(k) ==
    [action_type |-> "KeyPress", action_params |-> [DefaultParams EXCEPT !.key = Some(k)]]
MouseClick(b, h) ==
    [action_type |-> "MouseClick",
     action_params |-> [DefaultParams EXCEPT !.button = Some(b), !.hold = Some(h)]]
MouseRelease(b) ==
    [action_type |-> "MouseRelease",
     action_params |-> [DefaultParams EXCEPT !.button = Some(b)]]
Delay(d) ==
    [action_type |-> "Delay", action_params |-> [DefaultParams EXCEPT !.duration = Some(d)]]

\* str::to_lowercase on the names the model uses
to_lowercase(s) ==
    CASE s = "SHIFT" -> "shift"
      [] s = "Left" -> "left"
      [] s = "A" -> "a"
      [] s = "B" -> "b"
      [] s = "M" -> "m"
      [] OTHER -> s

\* string_to_key: the named keys, then any single ASCII character
NamedKeys ==
    [backspace |-> "Backspace", tab |-> "Tab", enter |-> "Return", return |-> "Return",
     escape |-> "Escape", esc |-> "Escape", space |-> "Space", shift |-> "Shift",
     ctrl |-> "Control", control |-> "Control", alt |-> "Alt", meta |-> "Meta"]
AsciiChars == {"a", "b", "m", "p", "x", "y"}
string_to_key(key) ==
    LET s == to_lowercase(key)
    IN  IF s \in DOMAIN NamedKeys THEN Some(NamedKeys[s])
        ELSE IF s \in AsciiChars THEN Some(s)
        ELSE None

\* string_to_mouse_button
string_to_mouse_button(button) ==
    LET s == to_lowercase(button)
    IN  CASE s = "left" -> Some("Left")
          [] s = "right" -> Some("Right")
          [] s = "middle" -> Some("Middle")
          [] OTHER -> None

\* A Result, with the OS input events issued on the way to it and the time
\* spent in std::thread::sleep.
Ok(evs) == [ok |-> TRUE, events |-> evs, slept_ms |-> 0]
Err == [ok |-> FALSE, events |-> <<>>, slept_ms |-> 0]

RECURSIVE KeysOf(_)
KeysOf(names) ==
    IF names = <<>> THEN <<>>
    ELSE string_to_key(Head(names)) \o KeysOf(Tail(names))

Reverse(s) == [j \in 1..Len(s) |-> s[Len(s) + 1 - j]]
EventsOf(kind, s) == [j \in 1..Len(s) |-> <<kind, s[j]>>]

\* (n as f32 / d as f32).round() as i32: to the nearest, halves away from zero
RoundDiv(n, d) ==
    IF n >= 0 THEN (2 * n + d) \div (2 * d) ELSE 0 - ((2 * (0 - n) + d) \div (2 * d))

\* The relative moves of a MouseDrag: at least 20 steps, or one every 10 ms,
\* each of the rounded share of the distance; one move when duration is 0.
DragMoves(dx, dy, duration_ms) ==
    LET steps == IF duration_ms \div 10 > 20 THEN duration_ms \div 10 ELSE 20
    IN  IF duration_ms > 0
        THEN [j \in 1..steps |->
                 <<"mouse_move_relative", RoundDiv(dx, steps), RoundDiv(dy, steps)>>]
        ELSE << <<"mouse_move_relative", dx, dy>> >>

\* Lines 291-301: the time slept between the moves of a MouseDrag: after each
\* step but the last, when the share of the duration is more than 1 ms.
DragSleep(duration_ms) ==
    LET steps == IF duration_ms \div 10 > 20 THEN duration_ms \div 10 ELSE 20
        sleep_duration == duration_ms \div steps
    IN  IF duration_ms > 0 /\ sleep_duration > 1 THEN (steps - 1) * sleep_duration ELSE 0

\* A Delay served by the executor as the phase loops serve it.
DelayServed(p) == IF p.duration = None THEN Err ELSE [Ok(<<>>) EXCEPT !.slept_ms = Unwrap(p.duration)]

\* Lines 312-320: a Delay is refused, whatever its duration.
DelayResult(p) == Err

\* The longest prefix of names that string_to_key knows.
RECURSIVE KnownPrefix(_)
KnownPrefix(names) ==
    IF names = <<>> \/ string_to_key(Head(names)) = None THEN <<>>
    ELSE <<Head(names)>> \o KnownPrefix(Tail(names))

\* Each key pressed as soon as it is converted: the keys before an unknown
\* name are down when the error is returned.
PressedAsConverted(names) ==
    IF Len(KnownPrefix(names)) < Len(names)
    THEN [Err EXCEPT !.events = EventsOf("key_down", KeysOf(KnownPrefix(names)))]
    ELSE Ok(EventsOf("key_down", KeysOf(names)) \o EventsOf("key_up", Reverse(KeysOf(names))))

\* The keys released in the order in which they were pressed.
ReleasedInPressOrder(names) ==
    IF \E j \in 1..Len(names) : string_to_key(names[j]) = None THEN Err
    ELSE Ok(EventsOf("key_down", KeysOf(names)) \o EventsOf("key_up", KeysOf(names)))

\* Lines 256-270: every name is converted before the first key goes down; the
\* keys go down in order and come up in reverse order.
KeyCombinationResult(names) ==
    IF \E j \in 1..Len(names) : string_to_key(names[j]) = None THEN Err
    ELSE Ok(EventsOf("key_down", KeysOf(names)) \o EventsOf("key_up", Reverse(KeysOf(names))))

\* execute_action_impl: the OS input events of one action, or an error.
\* enigo.key_click and enigo.mouse_click are a press followed by a release.
execute_action_impl(a) ==
    LET p == a.action_params
        button == string_to_mouse_button(Unwrap(p.button))
        key == string_to_key(Unwrap(p.key))
        duration_ms == IF p.duration = None THEN 0 ELSE Unwrap(p.duration)   \* unwrap_or(0)
    IN  CASE a.action_type = "MouseMove" ->
                 IF p.x = None \/ p.y = None THEN Err
                 ELSE IF p.relative = Some(TRUE)
                      THEN Ok(<< <<"mouse_move_relative", Unwrap(p.x), Unwrap(p.y)>> >>)
                 ELSE Ok(<< <<"mouse_move_to", Unwrap(p.x), Unwrap(p.y)>> >>)
          [] a.action_type = "MouseClick" ->
                 IF p.button = None THEN Err
                 ELSE IF button = None THEN Err
                 ELSE IF p.hold = Some(TRUE) THEN Ok(<< <<"mouse_down", Unwrap(button)>> >>)
                 ELSE Ok(<< <<"mouse_down", Unwrap(button)>>, <<"mouse_up", Unwrap(button)>> >>)
          [] a.action_type = "KeyPress" ->
                 IF p.key = None THEN Err
                 ELSE IF key = None THEN Err
                 ELSE Ok(<< <<"key_down", Unwrap(key)>>, <<"key_up", Unwrap(key)>> >>)
          [] a.action_type = "KeyCombination" ->
                 IF p.keys = None THEN Err ELSE KeyCombinationResult(Unwrap(p.keys))
          [] a.action_type = "MouseRelease" ->
                 IF p.button = None THEN Err
                 ELSE IF button = None THEN Err
                 ELSE Ok(<< <<"mouse_up", Unwrap(button)>> >>)
          [] a.action_type = "MouseDrag" ->
                 IF p.button = None THEN Err
                 ELSE IF button = None THEN Err
                 ELSE IF p.x = None \/ p.y = None THEN Err
                 ELSE [Ok(<< <<"mouse_down", Unwrap(button)>> >>
                          \o DragMoves(Unwrap(p.x), Unwrap(p.y), duration_ms)
                          \o << <<"mouse_up", Unwrap(button)>> >>)
                          EXCEPT !.slept_ms = DragSleep(duration_ms)]
          [] OTHER -> DelayResult(p)   \* ActionType::Delay

\* The inputs the OS sees depressed after a sequence of events.
RECURSIVE Depressed(_, _)
Depressed(d, evs) ==
    IF evs = <<>> THEN d
    ELSE LET e == Head(evs)
         IN  Depressed(CASE e[1] \in {"key_down", "mouse_down"} -> d \cup {e[2]}
                         [] e[1] \in {"key_up", "mouse_up"} -> d \ {e[2]}
                         [] OTHER -> d,
                       Tail(evs))

\* execute_action_safe: on every platform the action runs through
\* execute_action_impl; the result is only logged by the phase loops.
execute_action_safe(d, a) == Depressed(d, execute_action_impl(a).events)

(***************************************************************************)
(* Macros.                                                                 *)
(***************************************************************************)
Macro(id, groupId, note, before, actions, after, timeout) ==
    [id |-> id, groupId |-> groupId, midi_note |-> note, midi_channel |-> 1,
     midi_value |-> Some(127), actions |-> actions, before_actions |-> before,
     after_actions |-> after, timeout |-> timeout]

\* A macro of group "g" with a timeout, a macro without group whose main action
\* holds the left button down, and a macro with after-actions and no timeout.
MacroA == Macro("a", Some("g"), 10, Some(<<KeyPress("b")>>), <<KeyPress("m")>>,
                Some(<<KeyPress("a")>>), Some(TickMs))
MacroC == Macro("c", None, 11, Some(<<KeyPress("B")>>), <<MouseClick("left", TRUE)>>,
                Some(<<MouseRelease("left")>>), Some(TickMs))
MacroN == Macro("n", None, 12, Some(<<KeyPress("p")>>), <<Delay(TickMs), KeyPress("x")>>,
                Some(<<KeyPress("y")>>), None)
Catalog == {MacroA, MacroC, MacroN}

\* A macro whose phases each hold an action that fails (a key name that
\* string_to_key does not know), and whose after-actions hold a Delay.
MacroE == Macro("e", None, 13, Some(<<KeyPress("bogus"), KeyPress("b")>>),
                <<KeyPress("bogus"), KeyPress("m")>>,
                Some(<<Delay(TickMs), KeyPress("a")>>), Some(TickMs))

\* active_macro_key / state_key / macro_id_after: the group id, else the macro id
active_macro_key(m) == IF IsSome(m.groupId) THEN Unwrap(m.groupId) ELSE m.id

Keys == {active_macro_key(m) : m \in Catalog \cup {MacroE}}

HasAfter(m) == IsSome(m.after_actions) /\ Unwrap(m.after_actions) # <<>>
HasBefore(m) == IsSome(m.before_actions) /\ Unwrap(m.before_actions) # <<>>

(***************************************************************************)
(* HashMap and Vec helpers.                                                *)
(***************************************************************************)
EmptyMap == [k \in {} |-> None]
Remove(map, k) == [x \in DOMAIN map \ {k} |-> map[x]]
RemoveAll(map, ks) == [x \in DOMAIN map \ ks |-> map[x]]
Insert(map, k, v) == [x \in DOMAIN map \cup {k} |-> IF x = k THEN v ELSE map[x]]

\* Vec::retain(|m| m.id != id)
RetainNotId(macros, id) == SelectSeq(macros, LAMBDA m : m.id # id)

\* registered_macros.iter().find(|m| m.id == key || m.groupId == Some(key))
FindConfig(macros, key) ==
    LET hits == SelectSeq(macros, LAMBDA m : m.id = key \/ m.groupId = Some(key))
    IN  IF hits = <<>> THEN None ELSE Some(Head(hits))

\* The orders in which HashMap::iter can yield a set of keys.
Orders(ks) ==
    {s \in [1..Cardinality(ks) -> ks] : \A a, b \in 1..Cardinality(ks) : a # b => s[a] # s[b]}

(***************************************************************************)
(* MIDI decoding and matching (the callback of start_midi_listening_rust). *)
(***************************************************************************)
message_type_u8(status) == (status \div 16) * 16      \* status & 0xF0
channel(status) == (status % 16) + 1                  \* (status & 0x0F) + 1

\* A macro without midi_value matched by any value of its controller.
trigger_match_any_value(m, message) ==
    /\ m.midi_channel = channel(message[1])
    /\ message_type_u8(message[1]) = 176
    /\ m.midi_note = message[2]
    /\ (IsSome(m.midi_value) => message[3] = Unwrap(m.midi_value))

\* Lines 493-536: only a control change can match, on the channel, the
\* controller number and the value of the macro; a macro without midi_value
\* matches nothing, and so does a note message.
trigger_match(m, message) ==
    /\ m.midi_channel = channel(message[1])
    /\ message_type_u8(message[1]) = 176              \* is_cc_message
    /\ m.midi_note = message[2]
    /\ IsSome(m.midi_value)
    /\ message[3] = Unwrap(m.midi_value)

\* The spawn after the first match only.
FirstMatchOnly(macros, message) ==
    LET all == SelectSeq(macros, LAMBDA m : trigger_match(m, message))
    IN  IF all = <<>> THEN <<>> ELSE <<Head(all)>>

\* Lines 493-555: every macro of the snapshot that matches, in registry order.
MatchedMacros(macros, message) == SelectSeq(macros, LAMBDA m : trigger_match(m, message))

\* Control changes (status 0xB0, channel 1), one for each macro of the catalog;
\* those for MacroE and MacroC.
Messages == {<<176, 10, 127>>, <<176, 11, 127>>, <<176, 12, 127>>}
PhasesMessages == {<<176, 13, 127>>, <<176, 11, 127>>}

(***************************************************************************)
(* Tasks.                                                                  *)
(***************************************************************************)
IdleTask ==
    [pc |-> "idle", m |-> None, i |-> 0, forced |-> <<>>, sb |-> FALSE, h |-> 0,
     wake |-> 0, stale |-> FALSE, alone |-> FALSE, owes |-> {}, took |-> {}]

NoTimer ==
    [st |-> "none", key |-> "", after |-> <<>>, timeout_ms |-> 0, deadline |-> 0,
     i |-> 0, aborted |-> FALSE]
DeadTimer == [NoTimer EXCEPT !.st = "dead"]

InFlight(t) == tasks[t].pc # "idle"
Runnable(t) == InFlight(t) /\ now >= tasks[t].wake
KeyOf(t) == active_macro_key(tasks[t].m)

\* A timer task is pending from its spawn until it is aborted or has finished.
Pending(tm) == tm.st \in {"sleeping", "running", "cleanup"} /\ ~tm.aborted

\* AbortHandle::abort: a task suspended at an await (the sleep; on macOS the
\* rendezvous of execute_action_safe) is cancelled; a task that is past its
\* last suspension point (every other platform) runs to its end.
AbortOutcomes(tm) ==
    CASE tm.st = "sleeping" -> {DeadTimer}
      [] tm.st \in {"running", "cleanup"} -> {DeadTimer, [tm EXCEPT !.aborted = TRUE]}
      [] OTHER -> {tm}

\* The timer tasks after abort() has been called on the handles ids.
AbortAll(tms, ids) ==
    LET outcomes == UNION {AbortOutcomes(tms[id]) : id \in ids} \cup {tms[id] : id \in TimerIds}
    IN  {f \in [TimerIds -> outcomes] :
            \A id \in TimerIds : IF id \in ids THEN f[id] \in AbortOutcomes(tms[id])
                                 ELSE f[id] = tms[id]}

\* A finished task is freed when the last handle to it is dropped.
Referenced(id, act, tks) ==
    \/ \E k \in DOMAIN act : act[k] = id
    \/ \E t \in TaskIds : tks[t].h = id
Reap(tms, act, tks) ==
    [id \in TimerIds |-> IF tms[id].st = "dead" /\ ~Referenced(id, act, tks)
                         THEN NoTimer ELSE tms[id]]

FreeTimerIds == {id \in TimerIds : timers[id].st = "none"}
FreeTaskIds == {t \in TaskIds : tasks[t].pc = "idle"}
Min(S) == CHOOSE x \in S : \A y \in S : x <= y

Inc(n) == IF n < 2 THEN n + 1 ELSE n

\* History: every after-action of key has been executed (by its timer or forced).
AfterPhaseDone(tks, key) == [t \in TaskIds |-> [tks[t] EXCEPT !.owes = @ \ {key}]]

(***************************************************************************)
(* The locks of APP_STATE.  The code of each thread of control is the      *)
(* sequence of its lock acquisitions (Mutex::lock), guard drops, awaits    *)
(* and spawns, in program order; a branch either falls through or jumps.   *)
(***************************************************************************)
Lock(l) == [op |-> "lock", arg |-> l, to |-> 0]
Unlock(l) == [op |-> "unlock", arg |-> l, to |-> 0]
Await(what) == [op |-> "await", arg |-> what, to |-> 0]
SpawnOf(kind) == [op |-> "spawn", arg |-> kind, to |-> 0]
Branch(target) == [op |-> "branch", arg |-> "", to |-> target]
Goto(target) == [op |-> "goto", arg |-> "", to |-> target]
Emit(event) == [op |-> "emit", arg |-> event, to |-> 0]

\* The before_action_states guard of the before phase taken ahead of the loop
\* and dropped at the end of the block.
TriggerProgramGuardAcrossLoop ==
    <<Lock("active_macros"), Lock("registered_macros"),
      Unlock("registered_macros"), Unlock("active_macros"),
      Branch(11), Await("forced after-action"), Branch(6),
      Lock("before_action_states"), Unlock("before_action_states"), Goto(5),
      Lock("active_macros"), Unlock("active_macros"),
      Lock("before_action_states"), Unlock("before_action_states"),
      Lock("before_action_states"), Unlock("before_action_states"),
      Branch(22), Lock("before_action_states"), Await("before action"), Branch(19),
      Unlock("before_action_states"),
      Branch(25), Await("main action"), Branch(23),
      Branch(29), SpawnOf("timer"),
      Lock("active_macros"), Unlock("active_macros")>>

\* Lines 555-860, the trigger task: the preemption scan under the
\* active_macros and registered_macros guards (572-612, dropped in reverse
\* order of declaration), the forced after-actions (615-635), the reset of the
\* own key (638-658), the protection and the check of the before_action_state
\* (662-678, 701-712), the before loop and the latch (715-745), the main loop
\* (751-771), the spawn of the timer task and the store of its handle (774-857).
TriggerProgram ==
    <<Lock("active_macros"), Lock("registered_macros"),
      Unlock("registered_macros"), Unlock("active_macros"),
      Branch(11), Await("forced after-action"), Branch(6),
      Lock("before_action_states"), Unlock("before_action_states"), Goto(5),
      Lock("active_macros"), Unlock("active_macros"),
      Lock("before_action_states"), Unlock("before_action_states"),
      Lock("before_action_states"), Unlock("before_action_states"),
      Branch(22), Await("before action"), Branch(18),
      Lock("before_action_states"), Unlock("before_action_states"),
      Branch(25), Await("main action"), Branch(23),
      Branch(29), SpawnOf("timer"),
      Lock("active_macros"), Unlock("active_macros")>>

\* Lines 791-834, the timer task: the sleep, the after-actions, the cleanup
\* under the active_macros guard with the before_action_states guard inside.
TimerProgram ==
    <<Await("sleep"), Await("after action"), Branch(2),
      Lock("active_macros"), Branch(8),
      Lock("before_action_states"), Unlock("before_action_states"),
      Unlock("active_macros")>>

\* Lines 472-896, the MIDI callback: nothing for a message of less than three
\* bytes; else the snapshot under the registered_macros guard, one spawn for
\* each macro that matches, the emit.
CallbackProgram ==
    <<Branch(8), Lock("registered_macros"), Unlock("registered_macros"),
      Branch(7), SpawnOf("trigger"), Branch(5), Emit("rust-midi-event")>>

\* Lines 361-384, 388-391, 395-421 and 208-210: the commands.
RegisterProgram ==
    <<Lock("active_macros"), Unlock("active_macros"),
      Lock("registered_macros"), Unlock("registered_macros")>>
GetMacrosProgram == <<Lock("registered_macros"), Unlock("registered_macros")>>

\* The registry guard of cancel_macro not closed in its block: it is held
\* until the command returns.
CancelProgramRegistryHeld ==
    <<Lock("registered_macros"),
      Lock("active_macros"), Lock("before_action_states"),
      Unlock("before_action_states"), Unlock("active_macros"),
      Unlock("registered_macros")>>

\* Lines 395-421: the registry guard in its own block (399-402), then the
\* active_macros guard with the before_action_states guard inside (405-417).
CancelProgram ==
    <<Lock("registered_macros"), Unlock("registered_macros"),
      Lock("active_macros"), Lock("before_action_states"),
      Unlock("before_action_states"), Unlock("active_macros")>>
ExecuteProgram == <<Await("execute_action_safe")>>

CommandKinds == {"register_macro", "get_macros", "cancel_macro", "execute_action"}
\* One thread for each kind of task and for the callback, two for the commands:
\* the frontend can invoke a command while another one is running.
CommandThreads == {"command", "command2"}
Threads == {"trigger", "timer", "callback"} \cup CommandThreads

ProgramOf(kind) ==
    CASE kind = "trigger" -> TriggerProgram
      [] kind = "timer" -> TimerProgram
      [] kind = "callback" -> CallbackProgram
      [] kind = "register_macro" -> RegisterProgram
      [] kind = "get_macros" -> GetMacrosProgram
      [] kind = "cancel_macro" -> CancelProgram
      [] OTHER -> ExecuteProgram

IdleThread == [kind |-> "", pc |-> 0, held |-> <<>>, suspended |-> FALSE]

Running(p) == threads[p].pc > 0
Instr(p) == ProgramOf(threads[p].kind)[threads[p].pc]
At(p, op) == Running(p) /\ ~threads[p].suspended /\ Instr(p).op = op

\* The thread after the instruction at pc: past the last one it has ended.
Advance(th, pc) == IF pc > Len(ProgramOf(th.kind)) THEN IdleThread ELSE [th EXCEPT !.pc = pc]

HeldLocks(p) == {threads[p].held[j] : j \in 1..Len(threads[p].held)}
Holder(l) == {p \in Threads : l \in HeldLocks(p)}

TypeOK ==
    /\ now \in 0..(MaxTicks * TickMs)
    /\ DOMAIN active_macros \subseteq Keys \cup {m.id : m \in Catalog}
    /\ \A k \in DOMAIN active_macros : active_macros[k] \in TimerIds
    /\ commands \in Nat
    /\ \A c \in CmdIds : cmd[c].op \in {"idle", "register", "cancel"}

Init ==
    /\ registered_macros = <<MacroA, MacroC, MacroN>>
    /\ active_macros = EmptyMap
    /\ before_action_states = EmptyMap
    /\ tasks = [t \in TaskIds |-> IdleTask]
    /\ timers = [id \in TimerIds |-> NoTimer]
    /\ now = 0
    /\ down = {}
    /\ cmd = [c \in CmdIds |-> [op |-> "idle", id |-> "", config |-> None]]
    /\ triggers = 0
    /\ commands = MaxCommands
    /\ returned = None
    /\ beforeRuns = [k \in Keys |-> 0]
    /\ mainEnd = [k \in Keys |-> 0]
    /\ executed = None
    /\ threads = [p \in Threads |-> IdleThread]
    /\ emitted = <<>>

(***************************************************************************)
(* The clock.                                                              *)
(***************************************************************************)
Tick ==
    /\ now < MaxTicks * TickMs
    /\ now' = now + TickMs
    /\ emitted' = <<>>
    /\ UNCHANGED <<threads, executed, returned, registered_macros, active_macros,
                   before_action_states, tasks, timers, down, cmd, triggers, commands,
                   beforeRuns, mainEnd>>

(***************************************************************************)
(* The MIDI callback: snapshot of the registry, match, one task per match. *)
(***************************************************************************)
\* The timer armed with a default timeout when the macro has none.
ArmedTimeoutDefault(m) ==
    IF ~HasAfter(m) THEN None ELSE IF IsSome(m.timeout) THEN m.timeout ELSE Some(TickMs)

\* Lines 773-776: the timeout the timer is armed with: the macro's own, and only
\* when it has after-actions.
ArmedTimeout(m) == IF HasAfter(m) /\ IsSome(m.timeout) THEN m.timeout ELSE None
ArmsTimer(m) == IsSome(ArmedTimeout(m))

\* History: the keys with a trigger in its before or main phase that will arm a
\* timer, or with a timer still asleep: their after-actions are still due.
ActiveKeys ==
    {active_macro_key(tasks[u].m) : u \in {v \in TaskIds :
        tasks[v].pc \in {"before", "latch", "main", "arm", "store"} /\ ArmsTimer(tasks[v].m)}}
    \cup {timers[id].key : id \in {j \in TimerIds : timers[j].st = "sleeping"}}

NewTask(m) ==
    [IdleTask EXCEPT !.pc = "preempt", !.m = m,
                     !.alone = ~\E u \in TaskIds :
                                   tasks[u].pc # "idle"
                                   /\ active_macro_key(tasks[u].m) = active_macro_key(m),
                     !.owes = ActiveKeys \ {active_macro_key(m)}]

\* Lines 865-874: the name of the message type for the frontend.
frontend_message_type(type_u8) ==
    CASE type_u8 = 128 -> "noteoff"
      [] type_u8 = 144 -> "noteon"
      [] type_u8 = 160 -> "aftertouch"
      [] type_u8 = 176 -> "controlchange"
      [] type_u8 = 192 -> "programchange"
      [] type_u8 = 208 -> "channelpressure"
      [] type_u8 = 224 -> "pitchbend"
      [] OTHER -> "other"

\* Lines 877-889: the payload (without the timestamp of the driver).
RustMidiEvent(message) ==
    LET type_u8 == message_type_u8(message[1])
        is_note == type_u8 = 144 \/ type_u8 = 128
    IN  [status |-> message[1], data1 |-> message[2], data2 |-> message[3],
         type_name |-> frontend_message_type(type_u8),
         channel |-> channel(message[1]),
         note |-> IF is_note THEN Some(message[2]) ELSE None,
         velocity |-> IF is_note THEN Some(message[3]) ELSE None,
         controller |-> IF type_u8 = 176 THEN Some(message[2]) ELSE None,
         value |-> IF type_u8 = 176 THEN Some(message[3]) ELSE None]

\* The event emitted only for a message that triggered a macro.
EmitsOnMatch(message, matched) ==
    IF matched = <<>> THEN <<>> ELSE <<RustMidiEvent(message)>>

\* Lines 864-894: the emit comes after the loop over the macros, whatever
\* matched.
CallbackEmits(message, matched) == <<RustMidiEvent(message)>>

\* Lines 472-896: a message of less than three bytes is dropped; else one task
\* is spawned for each macro of the snapshot that matches, and the event is
\* emitted.
MidiCallback(message) ==
    LET macros_to_check == registered_macros
        matched == MatchedMacros(macros_to_check, message)
        keys == {active_macro_key(matched[j]) : j \in 1..Len(matched)}
        free == FreeTaskIds
        slot(j) == CHOOSE t \in free : Cardinality({u \in free : u < t}) = j - 1
    IN  IF Len(message) < 3
        THEN /\ emitted' = <<>>
             /\ UNCHANGED <<threads, executed, returned, registered_macros, active_macros,
                            before_action_states, tasks, timers, now, down, cmd, triggers,
                            commands, beforeRuns, mainEnd>>
        ELSE /\ Len(matched) <= Cardinality(free)
             /\ matched # <<>> => triggers < MaxTriggers
             /\ triggers' = IF matched # <<>> THEN triggers + 1 ELSE triggers
             /\ tasks' = [t \in TaskIds |->
                             IF \E j \in 1..Len(matched) : slot(j) = t
                             THEN NewTask(matched[CHOOSE j \in 1..Len(matched) : slot(j) = t])
                             ELSE IF InFlight(t) /\ KeyOf(t) \in keys
                                  THEN [tasks[t] EXCEPT !.stale = @ \/ tasks[t].wake > now,
                                                        !.alone = FALSE]
                             ELSE tasks[t]]
             /\ emitted' = CallbackEmits(message, matched)
             /\ UNCHANGED <<threads, executed, returned, registered_macros, active_macros,
                            before_action_states, timers, now, down, cmd, commands,
                            beforeRuns, mainEnd>>

(***************************************************************************)
(* The trigger task.                                                       *)
(***************************************************************************)
\* The forced after-actions left behind: the task goes on with its own key.
ForcedLoopSkipped(macros_to_execute) == "reset"

\* Line 615: the loop over the macros whose after-actions are forced comes
\* before the task handles its own key.
ForcedLoop(macros_to_execute) == IF macros_to_execute = <<>> THEN "reset" ELSE "forced"

\* Lines 569-612: under the active_macros and registered_macros locks, abort and
\* remove the timer of this key and of every other key that has a registered
\* macro with after-actions; those after-actions are to be executed at once.
Preempt(t) ==
    LET key == KeyOf(t)
        others == {k \in DOMAIN active_macros \ {key} :
                      /\ IsSome(FindConfig(registered_macros, k))
                      /\ HasAfter(Unwrap(FindConfig(registered_macros, k)))}
        keys_to_remove == others \cup ({key} \cap DOMAIN active_macros)
        act == RemoveAll(active_macros, keys_to_remove)
    IN  /\ Runnable(t)
        /\ tasks[t].pc = "preempt"
        /\ \E order \in Orders(others) :
           \E tms \in AbortAll(timers, {active_macros[k] : k \in keys_to_remove}) :
              LET macros_to_execute ==
                      [j \in 1..Len(order) |->
                          <<order[j], Unwrap(FindConfig(registered_macros, order[j]))>>]
                  tks == [tasks EXCEPT ![t].forced = macros_to_execute,
                                       ![t].took = others,
                                       ![t].owes = @ \cup others,
                                       ![t].i = 1,
                                       ![t].pc = ForcedLoop(macros_to_execute)]
              IN  /\ tasks' = tks
                  /\ active_macros' = act
                  /\ timers' = Reap(tms, act, tks)
        /\ emitted' = <<>>
        /\ UNCHANGED <<threads, executed, returned, registered_macros, before_action_states,
                       now, down, cmd, triggers, commands, beforeRuns, mainEnd>>

\* A loop that an Err leaves.
ContinuesIfOk(result, more) == more /\ result.ok

\* Lines 621-626, 727-733, 762-768, 805-810: both arms of the match on the
\* result of an action only log, and the loop goes on while actions are left.
Continues(result, more) == more

\* Lines 614-627: one forced after-action; a Delay too goes to the executor.
Forced(t) ==
    LET key == Head(tasks[t].forced)[1]
        after_actions == Unwrap(Head(tasks[t].forced)[2].after_actions)
        last == ~Continues(execute_action_impl(after_actions[tasks[t].i]),
                           tasks[t].i < Len(after_actions))
        tks == [tasks EXCEPT ![t].i = IF last THEN 0 ELSE @ + 1,
                             ![t].pc = IF last THEN "forced_cleanup" ELSE "forced"]
    IN  /\ Runnable(t)
        /\ tasks[t].pc = "forced"
        /\ down' = execute_action_safe(down, after_actions[tasks[t].i])
        /\ tasks' = IF last THEN AfterPhaseDone(tks, key) ELSE tks
        /\ beforeRuns' = IF last /\ key \in Keys THEN [beforeRuns EXCEPT ![key] = 0]
                         ELSE beforeRuns
        /\ emitted' = <<>>
        /\ UNCHANGED <<threads, executed, returned, registered_macros, active_macros,
                       before_action_states, timers, now, cmd, triggers, commands, mainEnd>>

\* The before_action_state of the preempted key left in place.
ForcedCleanupKept(states, key) == states

\* Lines 629-633: before_action_states.remove(&key) after the forced loop.
ForcedCleanupStates(states, key) == Remove(states, key)

\* Lines 629-633: remove the before_action_state of the preempted key.
ForcedCleanup(t) ==
    LET key == Head(tasks[t].forced)[1]
        rest == Tail(tasks[t].forced)
    IN  /\ Runnable(t)
        /\ tasks[t].pc = "forced_cleanup"
        /\ before_action_states' = ForcedCleanupStates(before_action_states, key)
        /\ tasks' = [tasks EXCEPT ![t].forced = rest,
                                  ![t].i = IF rest = <<>> THEN 0 ELSE 1,
                                  ![t].pc = ForcedLoop(rest)]
        /\ emitted' = <<>>
        /\ UNCHANGED <<threads, executed, returned, registered_macros, active_macros,
                       timers, now, down, cmd, triggers, commands, beforeRuns, mainEnd>>

\* Lines 637-658: abort and remove the timer of this key.
Reset(t) ==
    LET key == KeyOf(t)
        act == Remove(active_macros, key)
        tks == [tasks EXCEPT ![t].pc = "protect"]
    IN  /\ Runnable(t)
        /\ tasks[t].pc = "reset"
        /\ tasks' = tks
        /\ active_macros' = act
        /\ IF key \in DOMAIN active_macros
           THEN \E tms \in AbortAll(timers, {active_macros[key]}) :
                    timers' = Reap(tms, act, tks)
           ELSE timers' = timers
        /\ emitted' = <<>>
        /\ UNCHANGED <<threads, executed, returned, registered_macros, before_action_states,
                       now, down, cmd, triggers, commands, beforeRuns, mainEnd>>

\* Lines 660-678: a before_action_state found for this key is re-inserted with
\* last_executed = now and twice the cooldown.
Protect(t) ==
    LET key == KeyOf(t)
    IN  /\ Runnable(t)
        /\ tasks[t].pc = "protect"
        /\ before_action_states' =
               IF key \in DOMAIN before_action_states
               THEN Insert(before_action_states, key,
                           [last_executed |-> now, cooldown |-> BEFORE_ACTION_COOLDOWN_MS * 2])
               ELSE before_action_states
        /\ tasks' = [tasks EXCEPT ![t].pc = "check"]
        /\ emitted' = <<>>
        /\ UNCHANGED <<threads, executed, returned, registered_macros, active_macros,
                       timers, now, down, cmd, triggers, commands, beforeRuns, mainEnd>>

\* Lines 700-712: inside the cooldown the before-actions are skipped.
should_execute_before(states, key) ==
    ~(key \in DOMAIN states /\ now - states[key].last_executed < states[key].cooldown)

\* Lines 700-715: decide whether this trigger runs the before-actions.
CheckBefore(t) ==
    LET key == KeyOf(t)
        m == tasks[t].m
        sb == should_execute_before(before_action_states, key)
        runs == sb /\ HasBefore(m)
    IN  /\ Runnable(t)
        /\ tasks[t].pc = "check"
        /\ tasks' = [tasks EXCEPT ![t].sb = sb, ![t].i = 1,
                                  ![t].pc = IF runs THEN "before"
                                            ELSE IF m.actions = <<>> THEN "arm" ELSE "main"]
        /\ beforeRuns' = IF runs THEN [beforeRuns EXCEPT ![key] = Inc(@)] ELSE beforeRuns
        /\ mainEnd' = IF ~runs /\ m.actions = <<>> THEN [mainEnd EXCEPT ![key] = now]
                      ELSE mainEnd
        /\ emitted' = <<>>
        /\ UNCHANGED <<threads, executed, returned, registered_macros, active_macros,
                       before_action_states, timers, now, down, cmd, triggers, commands>>

\* One action of a phase loop: a Delay with a duration suspends the task, a
\* Delay without one is logged, every other action goes to the executor.
LoopDown(a) ==
    IF a.action_type = "Delay" THEN down ELSE execute_action_safe(down, a)
LoopResult(a) ==
    IF a.action_type = "Delay" THEN Ok(<<>>) ELSE execute_action_impl(a)
LoopWake(a) ==
    IF a.action_type = "Delay" /\ IsSome(a.action_params.duration)
    THEN now + Unwrap(a.action_params.duration) ELSE 0

\* Lines 718-736: one before-action.
Before(t) ==
    LET before_actions == Unwrap(tasks[t].m.before_actions)
        a == before_actions[tasks[t].i]
        last == ~Continues(LoopResult(a), tasks[t].i < Len(before_actions))
    IN  /\ Runnable(t)
        /\ tasks[t].pc = "before"
        /\ down' = LoopDown(a)
        /\ tasks' = [tasks EXCEPT ![t].wake = LoopWake(a),
                                  ![t].i = IF last THEN 0 ELSE @ + 1,
                                  ![t].pc = IF last THEN "latch" ELSE "before"]
        /\ emitted' = <<>>
        /\ UNCHANGED <<threads, executed, returned, registered_macros, active_macros,
                       before_action_states, timers, now, cmd, triggers, commands,
                       beforeRuns, mainEnd>>

\* Lines 738-744: the before_action_state is inserted after the before-actions.
Latch(t) ==
    /\ Runnable(t)
    /\ tasks[t].pc = "latch"
    /\ before_action_states' =
           Insert(before_action_states, KeyOf(t),
                  [last_executed |-> now, cooldown |-> BEFORE_ACTION_COOLDOWN_MS])
    /\ tasks' = [tasks EXCEPT ![t].wake = 0, ![t].i = 1,
                              ![t].pc = IF tasks[t].m.actions = <<>> THEN "arm" ELSE "main"]
    /\ mainEnd' = IF tasks[t].m.actions = <<>> THEN [mainEnd EXCEPT ![KeyOf(t)] = now]
                  ELSE mainEnd
    /\ emitted' = <<>>
    /\ UNCHANGED <<threads, executed, returned, registered_macros, active_macros, timers,
                   now, down, cmd, triggers, commands, beforeRuns>>

\* Lines 750-771: one main action.
Main(t) ==
    LET actions == tasks[t].m.actions
        a == actions[tasks[t].i]
        last == ~Continues(LoopResult(a), tasks[t].i < Len(actions))
    IN  /\ Runnable(t)
        /\ tasks[t].pc = "main"
        /\ down' = LoopDown(a)
        /\ tasks' = [tasks EXCEPT ![t].wake = LoopWake(a),
                                  ![t].i = IF last THEN 0 ELSE @ + 1,
                                  ![t].pc = IF last THEN "arm" ELSE "main"]
        /\ mainEnd' = IF last THEN [mainEnd EXCEPT ![KeyOf(t)] = now] ELSE mainEnd
        /\ emitted' = <<>>
        /\ UNCHANGED <<threads, executed, returned, registered_macros, active_macros,
                       before_action_states, timers, now, cmd, triggers, commands,
                       beforeRuns>>

\* Lines 773-834: spawn the timer task, or end the task when there is nothing
\* to arm.
Arm(t) ==
    LET m == tasks[t].m
        id == Min(FreeTimerIds)
    IN  /\ Runnable(t)
        /\ tasks[t].pc = "arm"
        /\ IF IsSome(ArmedTimeout(m))
           THEN /\ FreeTimerIds # {}
                /\ timers' = [timers EXCEPT ![id] =
                                 [st |-> "sleeping", key |-> active_macro_key(m),
                                  after |-> Unwrap(m.after_actions),
                                  timeout_ms |-> Unwrap(ArmedTimeout(m)),
                                  deadline |-> now + Unwrap(ArmedTimeout(m)),
                                  i |-> 0, aborted |-> FALSE]]
                /\ tasks' = [tasks EXCEPT ![t].pc = "store", ![t].h = id, ![t].wake = 0]
           ELSE /\ timers' = timers
                /\ tasks' = [tasks EXCEPT ![t] = IdleTask]
        /\ emitted' = <<>>
        /\ UNCHANGED <<threads, executed, returned, registered_macros, active_macros,
                       before_action_states, now, down, cmd, triggers, commands, beforeRuns,
                       mainEnd>>

\* Lines 836-857: store the abort handle, or abort the new timer when the key
\* already has one.
Store(t) ==
    LET task_key == KeyOf(t)
        id == tasks[t].h
        tks == [tasks EXCEPT ![t] = IdleTask]
    IN  /\ Runnable(t)
        /\ tasks[t].pc = "store"
        /\ tasks' = tks
        /\ IF task_key \in DOMAIN active_macros
           THEN /\ active_macros' = active_macros
                /\ \E tms \in AbortAll(timers, {id}) :
                       timers' = Reap(tms, active_macros, tks)
           ELSE /\ active_macros' = Insert(active_macros, task_key, id)
                /\ timers' = timers
        /\ emitted' = <<>>
        /\ UNCHANGED <<threads, executed, returned, registered_macros, before_action_states,
                       now, down, cmd, triggers, commands, beforeRuns, mainEnd>>

(***************************************************************************)
(* The after-actions timer task.                                           *)
(***************************************************************************)
\* Line 796: the sleep is over.
TimerFire(id) ==
    /\ timers[id].st = "sleeping"
    /\ now >= timers[id].deadline
    /\ timers' = [timers EXCEPT ![id].st = "running", ![id].i = 1, ![id].deadline = 0]
    /\ emitted' = <<>>
    /\ UNCHANGED <<threads, executed, returned, registered_macros, active_macros,
                   before_action_states, tasks, now, down, cmd, triggers, commands,
                   beforeRuns, mainEnd>>

\* Lines 802-811: one after-action; a Delay too goes to the executor.
TimerAction(id) ==
    LET tm == timers[id]
        last == ~Continues(execute_action_impl(tm.after[tm.i]), tm.i < Len(tm.after))
    IN  /\ tm.st = "running"
        /\ down' = execute_action_safe(down, tm.after[tm.i])
        /\ timers' = [timers EXCEPT ![id].i = IF last THEN 0 ELSE @ + 1,
                                    ![id].st = IF last THEN "cleanup" ELSE "running"]
        /\ tasks' = IF last THEN AfterPhaseDone(tasks, tm.key) ELSE tasks
        /\ beforeRuns' = IF last /\ tm.key \in Keys THEN [beforeRuns EXCEPT ![tm.key] = 0]
                         ELSE beforeRuns
        /\ emitted' = <<>>
        /\ UNCHANGED <<threads, executed, returned, registered_macros, active_macros,
                       before_action_states, now, cmd, triggers, commands, mainEnd>>

\* Lines 813-833: whatever entry the key has is removed, with its
\* before_action_state; without an entry nothing is removed.
TimerCleanup(id) ==
    LET macro_id_after == timers[id].key
        found == macro_id_after \in DOMAIN active_macros
        act == Remove(active_macros, macro_id_after)
        tms == [timers EXCEPT ![id] = DeadTimer]
    IN  /\ timers[id].st = "cleanup"
        /\ active_macros' = act
        /\ before_action_states' = IF found THEN Remove(before_action_states, macro_id_after)
                                   ELSE before_action_states
        /\ timers' = Reap(tms, act, tasks)
        /\ emitted' = <<>>
        /\ UNCHANGED <<threads, executed, returned, registered_macros, tasks, now, down,
                       cmd, triggers, commands, beforeRuns, mainEnd>>

(***************************************************************************)
(* The commands register_macro and cancel_macro.                           *)
(***************************************************************************)
NoCommand == [op |-> "idle", id |-> "", config |-> None]
FreeCmdIds == {c \in CmdIds : cmd[c] = NoCommand}

\* Lines 365-373: abort and remove the timer stored under the macro's id.
register_macro_abort(config) ==
    LET act == Remove(active_macros, config.id)
    IN  /\ FreeCmdIds # {}
        /\ commands > 0
        /\ commands' = commands - 1
        /\ cmd' = [cmd EXCEPT ![Min(FreeCmdIds)] =
                       [op |-> "register", id |-> config.id, config |-> Some(config)]]
        /\ active_macros' = act
        /\ IF config.id \in DOMAIN active_macros
           THEN \E tms \in AbortAll(timers, {active_macros[config.id]}) :
                    timers' = Reap(tms, act, tasks)
           ELSE timers' = timers
        /\ emitted' = <<>>
        /\ UNCHANGED <<threads, executed, returned, triggers, registered_macros,
                       before_action_states, tasks, now, down, beforeRuns, mainEnd>>

\* The new definition pushed without the retain.
PushOnly(macros, config) == Append(macros, config)

\* Lines 377-381: drop the entry of that id, then push the new one.
Upsert(macros, config) == Append(RetainNotId(macros, config.id), config)

\* Lines 375-383: replace the entry of that id, the new one goes last.
register_macro_store(c) ==
    /\ cmd[c].op = "register"
    /\ registered_macros' = Upsert(registered_macros, Unwrap(cmd[c].config))
    /\ cmd' = [cmd EXCEPT ![c] = NoCommand]
    /\ emitted' = <<>>
    /\ UNCHANGED <<threads, executed, returned, active_macros, before_action_states, tasks,
                   timers, now, down, triggers, commands, beforeRuns, mainEnd>>

\* Lines 398-402: remove the macro from the registry.
cancel_macro_retain(id) ==
    /\ FreeCmdIds # {}
    /\ commands > 0
    /\ commands' = commands - 1
    /\ cmd' = [cmd EXCEPT ![Min(FreeCmdIds)] = [op |-> "cancel", id |-> id, config |-> None]]
    /\ registered_macros' = RetainNotId(registered_macros, id)
    /\ emitted' = <<>>
    /\ UNCHANGED <<threads, executed, returned, triggers, active_macros,
                   before_action_states, tasks, timers, now, down, beforeRuns, mainEnd>>

\* Lines 404-420: abort and remove the timer and the before_action_state stored
\* under the macro's id.
cancel_macro_cleanup(c) ==
    LET act == Remove(active_macros, cmd[c].id)
    IN  /\ cmd[c].op = "cancel"
        /\ cmd' = [cmd EXCEPT ![c] = NoCommand]
        /\ active_macros' = act
        /\ IF cmd[c].id \in DOMAIN active_macros
           THEN \E tms \in AbortAll(timers, {active_macros[cmd[c].id]}) :
                    timers' = Reap(tms, act, tasks)
           ELSE timers' = timers
        /\ before_action_states' = Remove(before_action_states, cmd[c].id)
        /\ emitted' = <<>>
        /\ UNCHANGED <<threads, executed, returned, registered_macros, tasks, now, down,
                       triggers, commands, beforeRuns, mainEnd>>

\* Lines 387-391: get_macros returns a clone of the registry.
get_macros ==
    /\ returned' = Some(registered_macros)
    /\ emitted' = <<>>
    /\ UNCHANGED <<threads, executed, registered_macros, active_macros,
                   before_action_states, tasks, timers, now, down, cmd, triggers, commands,
                   beforeRuns, mainEnd>>

\* The orchestrator and the commands, with the MIDI messages the device sends.
Step(messages) ==
    \/ Tick
    \/ \E message \in messages : MidiCallback(message)
    \/ \E t \in TaskIds :
          \/ Preempt(t)
          \/ Forced(t)
          \/ ForcedCleanup(t)
          \/ Reset(t)
          \/ Protect(t)
          \/ CheckBefore(t)
          \/ Before(t)
          \/ Latch(t)
          \/ Main(t)
          \/ Arm(t)
          \/ Store(t)
    \/ \E id \in TimerIds :
          \/ TimerFire(id)
          \/ TimerAction(id)
          \/ TimerCleanup(id)
    \/ \E config \in Catalog : register_macro_abort(config)
    \/ \E m \in Catalog : cancel_macro_retain(m.id)
    \/ \E c \in CmdIds :
          \/ register_macro_store(c)
          \/ cancel_macro_cleanup(c)

Next == Step(Messages)

Spec == Init /\ [][Next]_vars

(***************************************************************************)
(* The registry commands alone: register_macro, cancel_macro and           *)
(* get_macros called in any order, two calls at a time.                    *)
(***************************************************************************)
MaxRegistryCommands == 3    \* register_macro / cancel_macro calls

\* A new definition for the id of MacroA.
MacroA2 == Macro("a", None, 20, None, <<KeyPress("x")>>, None, None)
RegistryCatalog == Catalog \cup {MacroA2}

InitRegistry ==
    /\ registered_macros = <<MacroA, MacroC, MacroN>>
    /\ active_macros = EmptyMap
    /\ before_action_states = EmptyMap
    /\ tasks = [t \in TaskIds |-> IdleTask]
    /\ timers = [id \in TimerIds |-> NoTimer]
    /\ now = 0
    /\ down = {}
    /\ cmd = [c \in CmdIds |-> NoCommand]
    /\ triggers = 0
    /\ commands = MaxRegistryCommands
    /\ returned = None
    /\ beforeRuns = [k \in Keys |-> 0]
    /\ mainEnd = [k \in Keys |-> 0]
    /\ executed = None
    /\ threads = [p \in Threads |-> IdleThread]
    /\ emitted = <<>>

NextRegistry ==
    \/ \E config \in RegistryCatalog : register_macro_abort(config)
    \/ \E m \in Catalog : cancel_macro_retain(m.id)
    \/ \E c \in CmdIds :
          \/ register_macro_store(c)
          \/ cancel_macro_cleanup(c)
    \/ get_macros

SpecRegistry == InitRegistry /\ [][NextRegistry]_vars

(***************************************************************************)
(* The MIDI callback alone: messages of every kind against registries of   *)
(* macros that differ in channel, number and value.                        *)
(***************************************************************************)
MaxSnapshot == 2    \* macros in the registry when the callback runs

MatchMacro(id, ch, note, value) ==
    [Macro(id, None, note, None, <<KeyPress("x")>>, None, None)
        EXCEPT !.midi_channel = ch, !.midi_value = value]

MatchCatalog ==
    {MatchMacro("m1", 1, 10, Some(127)), MatchMacro("m2", 1, 10, None),
     MatchMacro("m3", 2, 10, Some(127)), MatchMacro("m4", 1, 11, Some(127)),
     MatchMacro("m5", 1, 10, Some(127)), MatchMacro("m6", 1, 10, Some(0))}

\* ControlChange of two numbers and two values on channel 1, and on channels 2
\* and 16; NoteOn, NoteOff; one message of every other type; a message whose
\* first byte is no status byte; a message of two bytes.
MatchMessages ==
    {<<176, data1, data2>> : data1 \in {10, 11}, data2 \in {0, 127}}
    \cup {<<144, 10, data2>> : data2 \in {0, 127}}
    \cup {<<status, 10, 127>> : status \in {128, 177, 191, 160, 192, 208, 224, 240, 10}}
    \cup {<<176, 10>>}

\* The registries of at most MaxSnapshot macros with distinct ids.
MatchRegistries ==
    UNION {{s \in [1..n -> MatchCatalog] :
               \A i, j \in 1..n : i # j => s[i].id # s[j].id} : n \in 0..MaxSnapshot}

InitMatch ==
    /\ registered_macros \in MatchRegistries
    /\ active_macros = EmptyMap
    /\ before_action_states = EmptyMap
    /\ tasks = [t \in TaskIds |-> IdleTask]
    /\ timers = [id \in TimerIds |-> NoTimer]
    /\ now = 0
    /\ down = {}
    /\ cmd = [c \in CmdIds |-> NoCommand]
    /\ triggers = 0
    /\ commands = MaxCommands
    /\ returned = None
    /\ beforeRuns = [k \in Keys |-> 0]
    /\ mainEnd = [k \in Keys |-> 0]
    /\ executed = None
    /\ threads = [p \in Threads |-> IdleThread]
    /\ emitted = <<>>

NextMatch ==
    \/ \E message \in MatchMessages : MidiCallback(message)
    \/ \E config \in MatchCatalog : register_macro_abort(config)
    \/ \E m \in MatchCatalog : cancel_macro_retain(m.id)
    \/ \E c \in CmdIds :
          \/ register_macro_store(c)
          \/ cancel_macro_cleanup(c)

SpecMatch == InitMatch /\ [][NextMatch]_vars

(***************************************************************************)
(* The orchestrator with a registry whose macro has failing actions in     *)
(* every phase and a Delay among its after-actions.                        *)
(***************************************************************************)
InitPhases ==
    /\ registered_macros = <<MacroE, MacroC>>
    /\ active_macros = EmptyMap
    /\ before_action_states = EmptyMap
    /\ tasks = [t \in TaskIds |-> IdleTask]
    /\ timers = [id \in TimerIds |-> NoTimer]
    /\ now = 0
    /\ down = {}
    /\ cmd = [c \in CmdIds |-> NoCommand]
    /\ triggers = 0
    /\ commands = MaxCommands
    /\ returned = None
    /\ beforeRuns = [k \in Keys |-> 0]
    /\ mainEnd = [k \in Keys |-> 0]
    /\ executed = None
    /\ threads = [p \in Threads |-> IdleThread]
    /\ emitted = <<>>

NextPhases == Step(PhasesMessages)

SpecPhases == InitPhases /\ [][NextPhases]_vars

(***************************************************************************)
(* The orchestrator with a registry in which two macros share the group    *)
(* key "g" and differ in their after-actions.                              *)
(***************************************************************************)
\* The second macro of group "g".
MacroH == Macro("h", Some("g"), 14, Some(<<KeyPress("b")>>), <<KeyPress("x")>>,
                Some(<<KeyPress("y")>>), Some(TickMs))

\* The ControlChange messages of MacroH and of MacroC.
GroupMessages == {<<176, 14, 127>>, <<176, 11, 127>>}

InitGroups ==
    /\ registered_macros = <<MacroA, MacroH, MacroC>>
    /\ active_macros = EmptyMap
    /\ before_action_states = EmptyMap
    /\ tasks = [t \in TaskIds |-> IdleTask]
    /\ timers = [id \in TimerIds |-> NoTimer]
    /\ now = 0
    /\ down = {}
    /\ cmd = [c \in CmdIds |-> NoCommand]
    /\ triggers = 0
    /\ commands = MaxCommands
    /\ returned = None
    /\ beforeRuns = [k \in Keys |-> 0]
    /\ mainEnd = [k \in Keys |-> 0]
    /\ executed = None
    /\ threads = [p \in Threads |-> IdleThread]
    /\ emitted = <<>>

NextGroups == Step(GroupMessages)

SpecGroups == InitGroups /\ [][NextGroups]_vars

(***************************************************************************)
(* The orchestrator under fair scheduling, without commands: the runtime   *)
(* runs every task that is ready, every timer task is resumed when its     *)
(* sleep is over, and time passes.  The device sends the messages of       *)
(* MacroA and MacroC, at most MaxTriggers of them, and then none.          *)
(***************************************************************************)
LiveMessages == {<<176, 10, 127>>, <<176, 11, 127>>}

TaskStep(t) ==
    \/ Preempt(t)
    \/ Forced(t)
    \/ ForcedCleanup(t)
    \/ Reset(t)
    \/ Protect(t)
    \/ CheckBefore(t)
    \/ Before(t)
    \/ Latch(t)
    \/ Main(t)
    \/ Arm(t)
    \/ Store(t)

TimerStep(id) ==
    \/ TimerFire(id)
    \/ TimerAction(id)
    \/ TimerCleanup(id)

NextLive ==
    \/ Tick
    \/ \E message \in LiveMessages : MidiCallback(message)
    \/ \E t \in TaskIds : TaskStep(t)
    \/ \E id \in TimerIds : TimerStep(id)

\* tokio runs every spawned task that is not suspended, and the clock advances.
Fairness ==
    /\ WF_vars(Tick)
    /\ \A t \in TaskIds : WF_vars(TaskStep(t))
    /\ \A id \in TimerIds : WF_vars(TimerStep(id))

SpecLive == Init /\ [][NextLive]_vars /\ Fairness

(***************************************************************************)
(* The command execute_action alone: actions of every kind, with each      *)
(* parameter present or missing and each name known or unknown.            *)
(***************************************************************************)
ActionTypes ==
    {"MouseMove", "MouseClick", "KeyPress", "KeyCombination", "MouseRelease", "MouseDrag",
     "Delay"}

\* The parameters each action kind reads, each present or missing, each name
\* known or unknown; the parameters it does not read are left unset.
Buttons == {None, Some("left"), Some("right"), Some("bogus")}
Coordinates == {None, Some(5)}
\* The deltas of a MouseDrag: less than half a step, a multiple of the steps,
\* more than a step, negative.  The durations: none, 0, 20 steps, 30 steps.
Deltas == {5, 40, 0 - 30}
Durations == {None, Some(0), Some(100), Some(300)}
ExecParams(action_type) ==
    CASE action_type = "MouseMove" ->
             {[DefaultParams EXCEPT !.x = x, !.y = y, !.relative = r] :
                 x \in Coordinates, y \in Coordinates, r \in {None, Some(TRUE)}}
      [] action_type = "MouseClick" ->
             {[DefaultParams EXCEPT !.button = b, !.hold = h] :
                 b \in Buttons, h \in {None, Some(TRUE)}}
      [] action_type = "KeyPress" ->
             {[DefaultParams EXCEPT !.key = k, !.hold = h] :
                 k \in {None, Some("a"), Some("bogus")}, h \in {None, Some(TRUE)}}
      [] action_type = "KeyCombination" ->
             {[DefaultParams EXCEPT !.keys = ks] :
                 ks \in {None, Some(<<"ctrl", "a">>), Some(<<"ctrl", "bogus">>),
                         Some(<<"bogus", "a">>), Some(<<>>), Some(<<"a">>),
                         Some(<<"ctrl", "SHIFT", "a">>), Some(<<"a", "b", "a">>)}}
      [] action_type = "MouseRelease" ->
             {[DefaultParams EXCEPT !.button = b] : b \in Buttons}
      [] action_type = "MouseDrag" ->
             {[DefaultParams EXCEPT !.button = b, !.x = x, !.y = y] :
                 b \in Buttons, x \in Coordinates, y \in Coordinates}
             \cup {[DefaultParams EXCEPT !.button = Some("left"), !.x = Some(x),
                                         !.y = Some(y), !.duration = d] :
                       x \in Deltas, y \in Deltas, d \in Durations}
      [] OTHER ->
             {[DefaultParams EXCEPT !.duration = d] : d \in Durations}

ExecActions ==
    UNION {{[action_type |-> ty, action_params |-> p] : p \in ExecParams(ty)} :
              ty \in ActionTypes}

\* Lines 207-210: the command hands the action to execute_action_safe and
\* returns its Result.
execute_action(a) ==
    /\ executed' = Some([action |-> a, result |-> execute_action_impl(a)])
    /\ down' = execute_action_safe(down, a)
    /\ emitted' = <<>>
    /\ UNCHANGED <<threads, returned, registered_macros, active_macros,
                   before_action_states, tasks, timers, now, cmd, triggers, commands,
                   beforeRuns, mainEnd>>

NextExec == \E a \in ExecActions : execute_action(a)

SpecExec == Init /\ [][NextExec]_vars

(***************************************************************************)
(* The threads of control at the grain of their lock operations: one       *)
(* trigger task, one timer task, the MIDI callback and two commands at a   *)
(* time, each running its code from the first instruction to the last.     *)
(***************************************************************************)
OrchestratorUnchanged ==
    /\ emitted' = <<>>
    /\ UNCHANGED <<registered_macros, active_macros, before_action_states, tasks, timers,
                   now, down, cmd, triggers, commands, beforeRuns, mainEnd, returned,
                   executed>>

\* The MIDI driver calls the callback; the frontend invokes a command.
Start(p, kind) ==
    /\ threads[p].pc = 0
    /\ threads' = [threads EXCEPT ![p] = [IdleThread EXCEPT !.kind = kind, !.pc = 1]]
    /\ OrchestratorUnchanged

\* Mutex::lock returns when no thread holds the lock.
Acquire(p) ==
    /\ At(p, "lock")
    /\ Holder(Instr(p).arg) = {}
    /\ threads' = [threads EXCEPT ![p] =
                      Advance([@ EXCEPT !.held = Append(@, Instr(p).arg)], @.pc + 1)]
    /\ OrchestratorUnchanged

\* The guard is dropped.
Release(p) ==
    /\ At(p, "unlock")
    /\ threads' = [threads EXCEPT ![p] =
                      Advance([@ EXCEPT !.held = SelectSeq(@, LAMBDA l : l # Instr(p).arg)],
                              @.pc + 1)]
    /\ OrchestratorUnchanged

\* The thread reaches an await and is suspended; it resumes later.
Suspend(p) ==
    /\ At(p, "await")
    /\ threads' = [threads EXCEPT ![p].suspended = TRUE]
    /\ OrchestratorUnchanged

Resume(p) ==
    /\ Running(p)
    /\ threads[p].suspended
    /\ threads' = [threads EXCEPT ![p] = Advance([@ EXCEPT !.suspended = FALSE], @.pc + 1)]
    /\ OrchestratorUnchanged

\* A branch falls through or jumps; a goto jumps.
Jump(p) ==
    /\ \/ At(p, "branch") /\ threads' = [threads EXCEPT ![p] = Advance(@, @.pc + 1)]
       \/ (At(p, "branch") \/ At(p, "goto"))
          /\ threads' = [threads EXCEPT ![p] = Advance(@, Instr(p).to)]
    /\ OrchestratorUnchanged

\* spawn returns at once; the new task runs if the model has a thread for it.
SpawnThread(p) ==
    LET q == Instr(p).arg
    IN  /\ At(p, "spawn")
        /\ threads' = [r \in Threads |->
                          IF r = p THEN Advance(threads[p], threads[p].pc + 1)
                          ELSE IF r = q /\ threads[q].pc = 0
                               THEN [IdleThread EXCEPT !.kind = q, !.pc = 1]
                          ELSE threads[r]]
        /\ OrchestratorUnchanged

EmitEvent(p) ==
    /\ At(p, "emit")
    /\ threads' = [threads EXCEPT ![p] = Advance(@, @.pc + 1)]
    /\ OrchestratorUnchanged

\* Lines 370, 408, 606, 651, 844: abort() is called under the active_macros
\* guard; a timer task suspended at an await ends there.
AbortTimer ==
    /\ Running("timer")
    /\ threads["timer"].suspended
    /\ Holder("active_macros") # {}
    /\ threads' = [threads EXCEPT !["timer"] = IdleThread]
    /\ OrchestratorUnchanged

NextLocks ==
    \/ Start("callback", "callback")
    \/ \E kind \in CommandKinds : \E p \in CommandThreads : Start(p, kind)
    \/ \E p \in Threads :
          \/ Acquire(p)
          \/ Release(p)
          \/ Suspend(p)
          \/ Resume(p)
          \/ Jump(p)
          \/ SpawnThread(p)
          \/ EmitEvent(p)
    \/ AbortTimer

SpecLocks == Init /\ [][NextLocks]_vars

(***************************************************************************)
(* Properties.                                                             *)
(***************************************************************************)
TimersOf(k) == {id \in TimerIds : Pending(timers[id]) /\ timers[id].key = k}
CatalogMacro(id) == CHOOSE m \in Catalog : m.id = id

\* C1: for every group key, the before-actions are run at most once between
\* two executions of the key's after-actions: of the triggers of one period,
\* one runs them and the others skip them.
C1_BeforeOncePerPeriod == \A k \in Keys : beforeRuns[k] <= 1

\* C2: in every reachable state every group key has at most one pending
\* after-actions timer task (spawned, not aborted, not finished).
C2_OnePendingTimer == \A k \in Keys : Cardinality(TimersOf(k)) <= 1

C4_RetriggerResetsTimer ==
    [][/\ \A t \in TaskIds :
             Reset(t) => \A id \in TimerIds :
                             timers'[id].key = KeyOf(t)
                                 => timers'[id].st \notin {"sleeping", "running"}
       /\ \A id \in TimerIds :
             TimerFire(id) => now >= mainEnd[timers[id].key] + timers[id].timeout_ms]_vars

\* C5: a trigger task that a newer trigger of its key has superseded executes
\* no further action and arms no timer.
C5_StaleTaskSilent ==
    [][\A t \in TaskIds :
          tasks[t].stale =>
              ~(Forced(t) \/ Before(t) \/ Main(t) \/ (Arm(t) /\ tasks'[t].pc = "store"))]_vars

\* C6: when a timer that was not aborted has run its after-actions, its cleanup
\* leaves neither a timer entry nor a before_action_state for its key.
C6_FiredTimerClearsGroup ==
    [][\A id \in TimerIds :
          (TimerCleanup(id) /\ ~timers[id].aborted) =>
              /\ timers[id].key \notin DOMAIN active_macros'
              /\ timers[id].key \notin DOMAIN before_action_states']_vars

\* C7: when cancel_macro(id) returns, the macro is not in the registry, its
\* group key has no timer entry, no before_action_state and no pending timer.
C7_CancelClearsGroup ==
    [][\A c \in CmdIds :
          cancel_macro_cleanup(c) =>
              LET key == active_macro_key(CatalogMacro(cmd[c].id))
              IN  /\ \A j \in 1..Len(registered_macros') :
                         registered_macros'[j].id # cmd[c].id
                  /\ key \notin DOMAIN active_macros'
                  /\ key \notin DOMAIN before_action_states'
                  /\ \A id \in TimerIds :
                         timers'[id].key = key => ~Pending(timers'[id])]_vars

\* The inputs the actions of a macro press with hold = true.
RECURSIVE HeldInputs(_)
HeldInputs(acts) ==
    IF acts = <<>> THEN {}
    ELSE LET a == Head(acts)
             p == a.action_params
         IN  (IF p.hold # Some(TRUE) THEN {}
              ELSE IF a.action_type = "MouseClick" /\ IsSome(p.button)
                   THEN {string_to_mouse_button(Unwrap(p.button))[j] :
                            j \in DOMAIN string_to_mouse_button(Unwrap(p.button))}
              ELSE IF a.action_type = "KeyPress" /\ IsSome(p.key)
                   THEN {string_to_key(Unwrap(p.key))[j] :
                            j \in DOMAIN string_to_key(Unwrap(p.key))}
              ELSE {})
             \cup HeldInputs(Tail(acts))
HeldBy(m) ==
    HeldInputs(m.actions)
    \cup (IF IsSome(m.before_actions) THEN HeldInputs(Unwrap(m.before_actions)) ELSE {})
    \cup (IF IsSome(m.after_actions) THEN HeldInputs(Unwrap(m.after_actions)) ELSE {})

\* C8: when cancel_macro(id) returns, no key or button that the macro pressed
\* with hold = true is still depressed.
C8_CancelReleasesHeld ==
    [][\A c \in CmdIds :
          cancel_macro_cleanup(c) => down' \cap HeldBy(CatalogMacro(cmd[c].id)) = {}]_vars

\* C9: a trigger of a macro with before-actions and no timer, that arrives when
\* no trigger of its key is in flight and is not overtaken by a newer one, runs
\* the before-actions before its main actions.
C9_BeforeAgainWhenIdle ==
    \A t \in TaskIds :
        (/\ tasks[t].pc = "main"
         /\ tasks[t].alone
         /\ HasBefore(tasks[t].m)
         /\ ~ArmsTimer(tasks[t].m)) => tasks[t].sb

\* C10: a trigger of a macro without timeout runs each main action once, in
\* order, then ends without spawning or storing a timer; no timer task exists
\* for such a macro.
NoTimeoutKeys == {active_macro_key(m) : m \in {c \in Catalog : ~IsSome(c.timeout)}}
C10_NoTimeoutNoTimer ==
    [][/\ \A id \in TimerIds : timers[id].key \notin NoTimeoutKeys
       /\ \A k \in NoTimeoutKeys : k \notin DOMAIN active_macros
       /\ \A t \in TaskIds :
             (InFlight(t) /\ ~IsSome(tasks[t].m.timeout)) =>
                 /\ tasks[t].pc # "store"
                 /\ Main(t) => \/ tasks'[t].pc = "main" /\ tasks'[t].i = tasks[t].i + 1
                               \/ tasks'[t].pc = "arm" /\ tasks[t].i = Len(tasks[t].m.actions)
                 /\ Arm(t) => /\ tasks'[t] = IdleTask
                              /\ timers' = timers
                              /\ active_macros' = active_macros]_vars

\* A trigger of the macro without timeout has finished, and nothing is left.
C10_Witness ==
    /\ mainEnd["n"] > 0
    /\ \A t \in TaskIds : ~InFlight(t)
    /\ \A id \in TimerIds : timers[id].st = "none"
    /\ active_macros = EmptyMap

C12_RegisterAbortsTimer ==
    [][\A config \in Catalog :
          register_macro_abort(config) =>
              \A k \in DOMAIN active_macros :
                  k = active_macro_key(config)
                      => timers'[active_macros[k]].st \notin {"sleeping", "running"}]_vars

\* C13: the registry never holds two macros of the same id; when
\* register_macro has stored a definition, the registry holds exactly one
\* entry of its id, which is that definition; get_macros returns the registry.
C13_RegistryUniqueIds ==
    [][/\ \A i, j \in 1..Len(registered_macros') :
             i # j => registered_macros'[i].id # registered_macros'[j].id
       /\ \A c \in CmdIds :
             register_macro_store(c) =>
                 LET config == Unwrap(cmd[c].config)
                     at == {j \in 1..Len(registered_macros') :
                               registered_macros'[j].id = config.id}
                 IN  /\ Cardinality(at) = 1
                     /\ \A j \in at : registered_macros'[j] = config
       /\ get_macros => returned' = Some(registered_macros')]_vars

\* The new definition has replaced MacroA, and get_macros has returned the
\* registry that holds it.
C13_Witness ==
    /\ Len(registered_macros) = 3
    /\ \E j \in 1..Len(registered_macros) : registered_macros[j] = MacroA2
    /\ returned = Some(registered_macros)

\* The kind and the fields of a MIDI message of three bytes.
IsControlChange(message) == Len(message) >= 3 /\ message[1] \div 16 = 11
IsNote(message) == Len(message) >= 3 /\ message[1] \div 16 \in {8, 9}
OnChannelAndNumber(m, message) ==
    m.midi_channel = (message[1] % 16) + 1 /\ m.midi_note = message[2]

\* The trigger tasks a step spawns.
Spawned == {t \in TaskIds : tasks[t].pc = "idle" /\ tasks'[t].pc # "idle"}

\* C14: a control change matches a macro exactly when the channel and the
\* controller number agree and the macro's midi_value is set and equal to the
\* value; the callback spawns the tasks of exactly these macros.
C14_ControlChangeMatch ==
    [][\A message \in MatchMessages :
          IsControlChange(message) =>
              LET expected ==
                      {j \in 1..Len(registered_macros) :
                          /\ OnChannelAndNumber(registered_macros[j], message)
                          /\ registered_macros[j].midi_value # None
                          /\ registered_macros[j].midi_value = Some(message[3])}
              IN  /\ \A j \in 1..Len(registered_macros) :
                         trigger_match(registered_macros[j], message) <=> j \in expected
                  /\ MidiCallback(message) =>
                         {tasks'[t].m : t \in Spawned}
                             = {registered_macros[j] : j \in expected}]_vars

\* A control change has spawned the task of a macro while the registry holds
\* a macro of the same channel and number without midi_value, which has no task.
C14_Witness ==
    /\ \E j \in 1..Len(registered_macros) : registered_macros[j].id = "m2"
    /\ \E t \in TaskIds : tasks[t].pc # "idle" /\ tasks[t].m.id = "m1"
    /\ \A t \in TaskIds : tasks[t].pc # "idle" => tasks[t].m.id # "m2"

\* C15: a NoteOn or NoteOff message matches a macro exactly when the channel
\* and the note number agree and the macro's midi_value is unset or equal to
\* the velocity; a message that is neither a note nor a control change
\* matches nothing.
C15_NoteMatch ==
    \A message \in MatchMessages :
        \A j \in 1..Len(registered_macros) :
            LET m == registered_macros[j]
            IN  /\ IsNote(message) =>
                       (trigger_match(m, message)
                           <=> /\ OnChannelAndNumber(m, message)
                               /\ (m.midi_value = None \/ m.midi_value = Some(message[3])))
                /\ (Len(message) >= 3 /\ ~IsNote(message) /\ ~IsControlChange(message))
                       => ~trigger_match(m, message)

\* C16: the callback spawns one task for each macro of the registry that
\* matches the message, none for any other macro, and leaves the tasks in
\* flight where they are.
C16_OneTaskPerMatch ==
    [][\A message \in MatchMessages :
          MidiCallback(message) =>
              LET snapshot == registered_macros
                  hits == IF Len(message) < 3 THEN {}
                          ELSE {j \in 1..Len(snapshot) : trigger_match(snapshot[j], message)}
              IN  /\ \A j \in hits :
                         Cardinality({t \in Spawned : tasks'[t].m = snapshot[j]}) = 1
                  /\ \A t \in Spawned : \E j \in hits : tasks'[t].m = snapshot[j]
                  /\ \A t \in TaskIds \ Spawned : tasks'[t].pc = tasks[t].pc]_vars

\* One callback has spawned the tasks of two macros.
C16_Witness ==
    /\ triggers = 1
    /\ \A t \in TaskIds : tasks[t].pc = "preempt"
    /\ \E t, u \in TaskIds : tasks[t].m.id = "m1" /\ tasks[u].m.id = "m5"

\* The action a step of a phase loop is about to handle.
BeforeAction(t) == Unwrap(tasks[t].m.before_actions)[tasks[t].i]
MainAction(t) == tasks[t].m.actions[tasks[t].i]
ForcedAction(t) == Unwrap(Head(tasks[t].forced)[2].after_actions)[tasks[t].i]
AfterAction(id) == timers[id].after[timers[id].i]
IsDelay(a) == a.action_type = "Delay" /\ IsSome(a.action_params.duration)
Fails(a) == a.action_type # "Delay" /\ ~execute_action_impl(a).ok

\* C17: in the before and main loops a Delay suspends the task for its
\* duration; the action that the timer loop and the forced loop hand to the
\* executor is never a Delay.
C17_DelayConsumed ==
    [][/\ \A t \in TaskIds :
             /\ (Before(t) /\ IsDelay(BeforeAction(t)))
                   => tasks'[t].wake = now + Unwrap(BeforeAction(t).action_params.duration)
             /\ (Main(t) /\ IsDelay(MainAction(t)))
                   => tasks'[t].wake = now + Unwrap(MainAction(t).action_params.duration)
             /\ Forced(t) => ForcedAction(t).action_type # "Delay"
       /\ \A id \in TimerIds :
             TimerAction(id) => AfterAction(id).action_type # "Delay"]_vars

\* C19: after an action that fails, the loop is at the next action of the same
\* phase, or, after the last one, the task is where the phase ends; a task
\* whose macro has after-actions and a timeout spawns its timer all the same.
C19_FailureDoesNotStop ==
    [][/\ \A t \in TaskIds :
             /\ (Before(t) /\ Fails(BeforeAction(t))) =>
                    IF tasks[t].i < Len(Unwrap(tasks[t].m.before_actions))
                    THEN tasks'[t].pc = "before" /\ tasks'[t].i = tasks[t].i + 1
                    ELSE tasks'[t].pc = "latch"
             /\ (Main(t) /\ Fails(MainAction(t))) =>
                    IF tasks[t].i < Len(tasks[t].m.actions)
                    THEN tasks'[t].pc = "main" /\ tasks'[t].i = tasks[t].i + 1
                    ELSE tasks'[t].pc = "arm"
             /\ (Forced(t) /\ ~execute_action_impl(ForcedAction(t)).ok) =>
                    IF tasks[t].i < Len(Unwrap(Head(tasks[t].forced)[2].after_actions))
                    THEN tasks'[t].pc = "forced" /\ tasks'[t].i = tasks[t].i + 1
                    ELSE tasks'[t].pc = "forced_cleanup"
             /\ (Arm(t) /\ HasAfter(tasks[t].m) /\ IsSome(tasks[t].m.timeout)) =>
                    /\ tasks'[t].pc = "store"
                    /\ timers'[tasks'[t].h].st = "sleeping"
       /\ \A id \in TimerIds :
             (TimerAction(id) /\ ~execute_action_impl(AfterAction(id)).ok) =>
                 IF timers[id].i < Len(timers[id].after)
                 THEN timers'[id].st = "running" /\ timers'[id].i = timers[id].i + 1
                 ELSE timers'[id].st = "cleanup"]_vars

\* The timer of MacroE, armed after its failing before and main actions, has
\* gone through all its after-actions, the first of which fails.
C19_Witness ==
    \E id \in TimerIds :
        /\ timers[id].key = "e"
        /\ timers[id].st = "cleanup"
        /\ ~timers[id].aborted
        /\ before_action_states # EmptyMap

\* The trigger task has executed an action of its before or main phase.
Started(t) ==
    \/ tasks[t].pc \in {"latch", "arm", "store"}
    \/ tasks[t].pc \in {"before", "main"} /\ tasks[t].i > 1
    \/ tasks[t].pc = "main" /\ tasks[t].sb /\ HasBefore(tasks[t].m)

\* C18: with a trigger delay D, the later of two triggers of different keys
\* that arrive less than D apart starts its before and main actions no earlier
\* than D after the other trigger: as long as the clock is below D, at most
\* one key has a trigger that has started.
C18_InterGroupDebounce ==
    LET D == TickMs
    IN  now < D =>
            \A t, u \in TaskIds :
                (InFlight(t) /\ InFlight(u) /\ KeyOf(t) # KeyOf(u))
                    => ~(Started(t) /\ Started(u))

\* The key or button an action presses or releases, if it names one.
InputOf(a) ==
    LET p == a.action_params
    IN  IF a.action_type \in {"MouseClick", "MouseRelease"} /\ IsSome(p.button)
        THEN string_to_mouse_button(Unwrap(p.button))
        ELSE IF a.action_type = "KeyPress" /\ IsSome(p.key)
             THEN string_to_key(Unwrap(p.key))
        ELSE None

\* The events of action a are those of idempotent presses and releases when
\* the inputs d are held.
Idempotent(d, a) ==
    LET x == InputOf(a)
        held == IsSome(x) /\ Unwrap(x) \in d
        hold == a.action_params.hold = Some(TRUE)
        events == execute_action_impl(a).events
    IN  /\ (a.action_type \in {"MouseClick", "KeyPress"} /\ hold /\ held) => events = <<>>
        /\ (a.action_type = "MouseRelease" /\ IsSome(x) /\ ~held) => events = <<>>
        /\ (a.action_type = "KeyPress" /\ ~hold /\ held)
              => events = << <<"key_up", Unwrap(x)>>, <<"key_down", Unwrap(x)>>,
                             <<"key_up", Unwrap(x)>> >>

\* C20: whenever a phase loop hands an action to the executor, a press with
\* hold = true of an input that is held issues no event, a release of an
\* input that is not held issues no event, and a KeyPress without hold of a
\* held key releases it before the click.
C20_IdempotentPressRelease ==
    [][/\ \A t \in TaskIds :
             /\ Before(t) => Idempotent(down, BeforeAction(t))
             /\ Main(t) => Idempotent(down, MainAction(t))
             /\ Forced(t) => Idempotent(down, ForcedAction(t))
       /\ \A id \in TimerIds :
             TimerAction(id) => Idempotent(down, AfterAction(id))]_vars

\* A parameter that the action kind requires is missing, or a key or button
\* name is not one that string_to_key / string_to_mouse_button knows.
Unknown(names) == \E j \in 1..Len(names) : string_to_key(names[j]) = None
Invalid(a) ==
    LET p == a.action_params
        noButton == p.button = None \/ string_to_mouse_button(Unwrap(p.button)) = None
    IN  CASE a.action_type = "MouseMove" -> p.x = None \/ p.y = None
          [] a.action_type \in {"MouseClick", "MouseRelease"} -> noButton
          [] a.action_type = "KeyPress" -> p.key = None \/ Unknown(<<Unwrap(p.key)>>)
          [] a.action_type = "KeyCombination" -> p.keys = None \/ Unknown(Unwrap(p.keys))
          [] a.action_type = "MouseDrag" -> noButton \/ p.x = None \/ p.y = None
          [] OTHER -> p.duration = None

\* C21: an action whose required parameter is missing, or whose key or button
\* name is unknown, returns an error and issues no OS input event: the inputs
\* that are down stay as they were.
C21_InvalidActionNoEvent ==
    [][\A a \in ExecActions :
          (execute_action(a) /\ Invalid(a)) =>
              /\ ~Unwrap(executed').result.ok
              /\ Unwrap(executed').result.events = <<>>
              /\ down' = down]_vars

\* A KeyCombination whose second name is unknown and a MouseDrag without y have
\* returned their error while the left button was held.
C21_Witness ==
    /\ down = {"Left"}
    /\ IsSome(executed)
    /\ ~Unwrap(executed).result.ok
    /\ LET a == Unwrap(executed).action
       IN  \/ a.action_type = "KeyCombination"
              /\ a.action_params.keys = Some(<<"ctrl", "bogus">>)
           \/ a.action_type = "MouseDrag"
              /\ a.action_params.button = Some("left")
              /\ a.action_params.y = None

\* The place of each lock in the order registry, active timers, before latches.
LockRank(l) ==
    CASE l = "registered_macros" -> 1
      [] l = "active_macros" -> 2
      [] OTHER -> 3

\* C22: the locks a thread holds at the same time were acquired in the order
\* registered_macros, active_macros, before_action_states: no thread holds the
\* registry lock that it acquired while it held the active_macros lock.
C22_LockOrder ==
    \A p \in Threads :
        \A i, j \in 1..Len(threads[p].held) :
            i < j => LockRank(threads[p].held[i]) < LockRank(threads[p].held[j])

\* C23: no thread holds a lock while it is suspended at an await (a Delay, the
\* timer sleep, an awaited action execution).
C23_NoLockAcrossAwait == \A p \in Threads : threads[p].suspended => threads[p].held = <<>>

\* The trigger task is suspended in its before loop, after the critical
\* sections of its preemption, reset, protection and check, while another
\* thread holds a lock.
C23_Witness ==
    /\ threads["trigger"].suspended
    /\ Instr("trigger").arg = "before action"
    /\ \E p \in Threads : threads[p].held # <<>>

\* C25: the callback never waits for a trigger task or a timer task: whenever
\* it is at its lock of the registry, no task holds that lock.
C25_CallbackNeverWaits ==
    At("callback", "lock") => Holder(Instr("callback").arg) \cap {"trigger", "timer"} = {}

\* The type name the frontend is given for each top nibble of the status.
TypeNameOf(nibble) ==
    CASE nibble = 8 -> "noteoff"
      [] nibble = 9 -> "noteon"
      [] nibble = 10 -> "aftertouch"
      [] nibble = 11 -> "controlchange"
      [] nibble = 12 -> "programchange"
      [] nibble = 13 -> "channelpressure"
      [] nibble = 14 -> "pitchbend"
      [] OTHER -> "other"

\* C24: the callback spawns no task and emits no event for a message of less
\* than three bytes; for every other message it emits exactly one event,
\* whether a macro matched or not, whose channel is the low nibble of the
\* status plus one, in 1..16, and whose type_name is that of the top nibble.
C24_OneEventPerMessage ==
    [][\A message \in MatchMessages :
          MidiCallback(message) =>
              IF Len(message) < 3
              THEN emitted' = <<>> /\ tasks' = tasks
              ELSE /\ Len(emitted') = 1
                   /\ emitted'[1].status = message[1]
                   /\ emitted'[1].channel = (message[1] % 16) + 1
                   /\ emitted'[1].channel \in 1..16
                   /\ emitted'[1].type_name = TypeNameOf(message[1] \div 16)]_vars

\* A message that matches no macro of a registry that is not empty has been
\* emitted: a pitch bend, and no task was spawned.
C24_Witness ==
    /\ registered_macros # <<>>
    /\ Len(emitted) = 1
    /\ emitted[1].type_name = "pitchbend"
    /\ triggers = 0
    /\ \A t \in TaskIds : tasks[t].pc = "idle"

\* C26: every entry of active_macros refers to a timer task that is pending: it
\* has not been aborted and has not finished its after-actions and cleanup.
C26_EntriesArePending ==
    \A k \in DOMAIN active_macros : Pending(timers[active_macros[k]])

\* C27: the cleanup of a timer task removes the entry of its key, and the
\* before_action_state, only if the entry is its own handle: an entry that
\* holds the handle of another timer stays, with the before_action_state.
C27_CleanupOnlyOwnEntry ==
    [][\A id \in TimerIds :
          LET key == timers[id].key
          IN  (/\ TimerCleanup(id)
               /\ key \in DOMAIN active_macros
               /\ active_macros[key] # id)
                  => /\ active_macros' = active_macros
                     /\ before_action_states' = before_action_states]_vars

\* History: the before-phase runs of key that have completed since the last
\* after-phase of key: those begun, less those still in their loop.
BeforeRunsCompleted(key) ==
    beforeRuns[key]
        - Cardinality({t \in TaskIds : InFlight(t) /\ KeyOf(t) = key /\ tasks[t].pc = "before"})

\* C28: a trigger of a macro with before-actions that does not run them itself
\* executes a main action only when a run of the before-actions of its key
\* has completed since the last after-phase of the key.
C28_MainAfterBefore ==
    [][\A t \in TaskIds :
          (Main(t) /\ HasBefore(tasks[t].m) /\ ~tasks[t].sb)
              => BeforeRunsCompleted(KeyOf(t)) > 0]_vars

\* C29: the after-actions of an armed period are executed at most once: a
\* trigger takes the key of another group for forced execution only while the
\* timer of that key is still asleep, so that the timer task has not executed
\* and will not execute them too; and no two triggers have the same key in
\* their forced lists at the same time.
C29_AfterOncePerPeriod ==
    [][/\ \A t \in TaskIds :
             Preempt(t) =>
                 \A k \in (DOMAIN active_macros \ DOMAIN active_macros') \ {KeyOf(t)} :
                     timers[active_macros[k]].st = "sleeping"
       /\ \A t, u \in TaskIds :
             (t # u /\ tasks'[t].pc = "forced" /\ tasks'[u].pc = "forced")
                 => Head(tasks'[t].forced)[1] # Head(tasks'[u].forced)[1]]_vars

\* C30: a timer that was not aborted executes no after-action while a trigger
\* of its key is in its before or main phase.
C30_NoAfterDuringPhases ==
    [][\A id \in TimerIds :
          (TimerAction(id) /\ ~timers[id].aborted) =>
              \A t \in TaskIds :
                  (InFlight(t) /\ KeyOf(t) = timers[id].key)
                      => tasks[t].pc \notin {"before", "latch", "main"}]_vars

\* C31: the after-actions that a preempting trigger takes for forced execution
\* of another key are those captured by the timer of that key that it aborts
\* in its sleep.
C31_ForcedSameAsTimer ==
    [][\A t \in TaskIds :
          Preempt(t) =>
              \A j \in 1..Len(tasks'[t].forced) :
                  LET key == tasks'[t].forced[j][1]
                      tm == timers[active_macros[key]]
                  IN  tm.st = "sleeping"
                          => Unwrap(tasks'[t].forced[j][2].after_actions) = tm.after]_vars

\* p waits for q: p is at a Mutex::lock of a lock that q holds.
WaitsFor(p, q) == At(p, "lock") /\ q \in Holder(Instr(p).arg)

\* C32: no set of threads (the callback, a trigger task, a timer task, the
\* commands) is ever such that each of them waits for a lock that another one
\* of the set holds.
C32_NoDeadlock ==
    \A W \in SUBSET Threads :
        W # {} => \E p \in W : \A q \in W : ~WaitsFor(p, q)

\* The trigger task holds the active_macros lock and waits for the registry
\* lock, which a command holds, while the other command waits for the
\* active_macros lock.
C32_Witness ==
    /\ At("trigger", "lock")
    /\ "active_macros" \in HeldLocks("trigger")
    /\ \E p, q \in CommandThreads :
          /\ WaitsFor("trigger", p)
          /\ WaitsFor(q, "trigger")

\* The number of times the event e occurs in evs.
Count(evs, e) == Cardinality({j \in 1..Len(evs) : evs[j] = e})

\* C33: a KeyCombination whose n names are all known succeeds with 2n events:
\* the j-th is the key-down of the j-th key and the j-th from the end is its
\* key-up, so that every key has as many key-ups as key-downs.
C33_KeyCombinationOrder ==
    (/\ IsSome(executed)
     /\ Unwrap(executed).action.action_type = "KeyCombination"
     /\ IsSome(Unwrap(executed).action.action_params.keys)
     /\ ~Unknown(Unwrap(Unwrap(executed).action.action_params.keys)))
        => LET names == Unwrap(Unwrap(executed).action.action_params.keys)
               evs == Unwrap(executed).result.events
               n == Len(names)
               k(j) == Unwrap(string_to_key(names[j]))
           IN  /\ Unwrap(executed).result.ok
               /\ Len(evs) = 2 * n
               /\ \A j \in 1..n :
                     /\ evs[j] = <<"key_down", k(j)>>
                     /\ evs[2 * n + 1 - j] = <<"key_up", k(j)>>
                     /\ Count(evs, <<"key_down", k(j)>>) = Count(evs, <<"key_up", k(j)>>)

\* Control, Shift and a have been pressed and released by one KeyCombination.
C33_Witness ==
    /\ IsSome(executed)
    /\ Unwrap(executed).action.action_type = "KeyCombination"
    /\ Unwrap(executed).action.action_params.keys = Some(<<"ctrl", "SHIFT", "a">>)
    /\ Len(Unwrap(executed).result.events) = 6

\* The sum of the c-th components of the events evs.
RECURSIVE SumOf(_, _)
SumOf(evs, c) == IF evs = <<>> THEN 0 ELSE Head(evs)[c] + SumOf(Tail(evs), c)

\* C34: a MouseDrag with a known button, x and y succeeds; its first event is
\* the press of the button and its last the release; the events between them
\* are relative moves, one when the duration is 0 or missing and
\* max(20, duration / 10) otherwise, and their deltas add up to (x, y).
C34_DragTotalDelta ==
    (/\ IsSome(executed)
     /\ Unwrap(executed).action.action_type = "MouseDrag"
     /\ ~Invalid(Unwrap(executed).action))
        => LET p == Unwrap(executed).action.action_params
               button == Unwrap(string_to_mouse_button(Unwrap(p.button)))
               duration == IF p.duration = None THEN 0 ELSE Unwrap(p.duration)
               evs == Unwrap(executed).result.events
               moves == SubSeq(evs, 2, Len(evs) - 1)
           IN  /\ Unwrap(executed).result.ok
               /\ Len(evs) >= 3
               /\ Head(evs) = <<"mouse_down", button>>
               /\ evs[Len(evs)] = <<"mouse_up", button>>
               /\ \A j \in 1..Len(moves) : moves[j][1] = "mouse_move_relative"
               /\ Len(moves) = IF duration = 0 THEN 1
                               ELSE IF duration \div 10 > 20 THEN duration \div 10 ELSE 20
               /\ SumOf(moves, 2) = Unwrap(p.x)
               /\ SumOf(moves, 3) = Unwrap(p.y)

ClockEnded ==
    \/ \E id \in TimerIds :
          timers[id].st = "sleeping" /\ timers[id].deadline > MaxTicks * TickMs
    \/ \E t \in TaskIds : tasks[t].wake > MaxTicks * TickMs

\* The group keys of the registered macros with a timeout and after-actions.
TimedKeys == {active_macro_key(registered_macros[j]) :
                 j \in {i \in 1..Len(registered_macros) : ArmsTimer(registered_macros[i])}}

TasksDone == \A t \in TaskIds : tasks[t].pc = "idle"
TimersDone == \A id \in TimerIds : timers[id].st \notin {"sleeping", "running", "cleanup"}
NoEntryLeft ==
    \A k \in TimedKeys : k \notin DOMAIN active_macros /\ k \notin DOMAIN before_action_states

\* C36: once the messages have stopped, and unless the clock of the model ends
\* under a sleeping timer, the system comes to rest: from some point on no
\* trigger task is in flight, no timer task is asleep or running, and neither
\* active_macros nor before_action_states holds an entry for a group key whose
\* macro has a timeout and after-actions.
C36_EventuallyAtRest == <>ClockEnded \/ <>[](TasksDone /\ TimersDone /\ NoEntryLeft)

====
